---- MODULE Spec2Model ----
(***************************************************************************)
(* The fileUploader Lightning web component: a file is selected (input or  *)
(* drop), validated in three stages (size, extension, leading bytes), and  *)
(* a valid file can be handed to the host through a fileupload event.      *)
(*                                                                         *)
(* JavaScript strings that the code takes apart (file names, allow-list    *)
(* entries) are sequences of one-character strings; strings the code only  *)
(* builds and compares are TLA+ strings.  File contents are sequences of   *)
(* byte values.                                                            *)
(***************************************************************************)
EXTENDS Integers, Sequences, FiniteSets, TLC

VARIABLES
    maxFileSize,        \* @api maxFileSize
    acceptedFileTypes,  \* @api acceptedFileTypes
    showFilePreview,    \* @api showFilePreview
    selectedFile,       \* @track selectedFile (a file, or NoFile for null)
    isValidPdf,         \* @track isValidPdf
    validationStatus,   \* @track validationStatus
    validationDetails,  \* @track validationDetails
    errorMessage,       \* @track errorMessage
    successMessage,     \* @track successMessage
    isDragOver,         \* @track isDragOver
    pending,            \* processFile calls suspended at their await, oldest first
    events,             \* details of the fileupload events dispatched so far
    timers,             \* setTimeout callbacks of uploadFile not yet run, oldest first
    validation,         \* the local `validation` of the processFile call that just resumed
    phase,              \* where the current candidate stands; written, never read, by the actions
    lastCall            \* the last direct call of a utility method: its argument and result

vars == <<maxFileSize, acceptedFileTypes, showFilePreview, selectedFile, isValidPdf,
          validationStatus, validationDetails, errorMessage, successMessage,
          isDragOver, pending, events, timers, validation, phase, lastCall>>

(***************************************************************************)
(* Bounds of the model.                                                    *)
(***************************************************************************)
MaxPending == 2     \* processFile calls in flight at once
MaxEvents == 1      \* fileupload events dispatched in one behaviour
MaxTimers == 1      \* post-upload timers outstanding at once

(***************************************************************************)
(* Program constants.                                                      *)
(***************************************************************************)
DefaultMaxFileSize == 10485760
K == 1024
SliceEnd == 1024

NoFile == [name |-> <<>>, size |-> -1, type |-> "null", content |-> <<>>]
\* no processFile call has just resumed.  Besides the verdict, `validation` records
\* the call's file, how its read ended ("none", "load", "error"), and whether the call
\* was the one validating the current candidate.
NoValidation == [file |-> NoFile, isValid |-> FALSE, status |-> "", details |-> "",
                 errorMessage |-> "", read |-> "none", current |-> FALSE]
\* no utility method has been called directly
NoCall == [method |-> "", argument |-> <<>>, result |-> <<>>]

(***************************************************************************)
(* String helpers: the JavaScript built-ins the code calls.                *)
(***************************************************************************)
Min(a, b) == IF a < b THEN a ELSE b

UpperToLower ==
    [c \in {"A", "B", "D", "F", "P", "T", "X"} |->
        CASE c = "A" -> "a" [] c = "B" -> "b" [] c = "D" -> "d" [] c = "F" -> "f"
          [] c = "P" -> "p" [] c = "T" -> "t" [] c = "X" -> "x"]

\* String.prototype.toLowerCase
toLowerCase(s) ==
    [i \in 1..Len(s) |-> IF s[i] \in DOMAIN UpperToLower THEN UpperToLower[s[i]] ELSE s[i]]

\* String.prototype.lastIndexOf for a one-character needle: 0-based, -1 when absent
lastIndexOf(s, ch) ==
    LET hits == {i \in 1..Len(s) : s[i] = ch}
    IN  IF hits = {} THEN -1 ELSE (CHOOSE i \in hits : \A j \in hits : j <= i) - 1

\* String.prototype.slice(start) with a 0-based start inside the string
slice(s, start) == SubSeq(s, start + 1, Len(s))

\* Array.prototype.includes
includes(list, s) == \E i \in 1..Len(list) : list[i] = s

\* the characters of s as one TLA+ string
RECURSIVE Text(_)
Text(s) == IF s = <<>> THEN "" ELSE Head(s) \o Text(Tail(s))

(***************************************************************************)
(* getFileExtension, formatFileSize                                        *)
(***************************************************************************)
\* getFileExtension cutting at the first dot instead of the last
getFileExtensionFirstDot(filename) ==
    LET dots == {i \in 1..Len(filename) : filename[i] = "."}
        firstDotIndex == IF dots = {} THEN -1
                         ELSE (CHOOSE i \in dots : \A j \in dots : i <= j) - 1
    IN  IF firstDotIndex = -1 \/ firstDotIndex = Len(filename) - 1
        THEN <<>>
        ELSE slice(filename, firstDotIndex + 1)

getFileExtension(filename) ==
    LET lastDotIndex == lastIndexOf(filename, ".")
    IN  IF lastDotIndex = -1 \/ lastDotIndex = Len(filename) - 1
        THEN <<>>
        ELSE slice(filename, lastDotIndex + 1)

\* A byte count as its digits to the base k, most significant first: a Number
\* holds integers up to 2^53, beyond the integers the model's arithmetic has.
RECURSIVE Digits(_, _)
Digits(n, k) == IF n < k THEN <<n>> ELSE Append(Digits(n \div k, k), n % k)

\* Math.floor(Math.log(bytes) / Math.log(k)) for the base-k digits of bytes >= 1
FloorLog(bytes) == Len(bytes) - 1

sizes == <<"Bytes", "KB", "MB", "GB">>

\* Math.floor(100 * x) for the fraction x whose base-K digits after the point are ds
RECURSIVE Scaled(_)
Scaled(ds) == IF ds = <<>> THEN 0 ELSE (Head(ds) * 100 + Scaled(Tail(ds))) \div K

\* (bytes / Math.pow(k, i)).toFixed(2) for i = FloorLog(bytes), as a number of
\* hundredths (ties round up): the division moves the point behind the first digit
Hundredths(bytes) ==
    Head(bytes) * 100
      + (IF Len(bytes) = 1 THEN 0
         ELSE (bytes[2] * 100 + Scaled(SubSeq(bytes, 3, Len(bytes))) + K \div 2) \div K)

\* parseFloat of a toFixed(2) result, printed: trailing zeros dropped
NumberText(h) ==
    LET whole == h \div 100
        frac  == h % 100
    IN  IF frac = 0 THEN ToString(whole)
        ELSE IF frac % 10 = 0 THEN ToString(whole) \o "." \o ToString(frac \div 10)
        ELSE ToString(whole) \o "." \o ToString(frac \div 10) \o ToString(frac % 10)

\* bytes is given by its base-K digits; sizes[i] beyond the array is undefined
formatFileSize(bytes) ==
    IF bytes = <<0>> THEN "0 Bytes"
    ELSE LET i == FloorLog(bytes)
         IN  NumberText(Hundredths(bytes)) \o " " \o
             (IF i + 1 \in DOMAIN sizes THEN sizes[i + 1] ELSE "undefined")

(***************************************************************************)
(* The validation pipeline: validateFile and validatePdfContent.           *)
(***************************************************************************)
pdfMagicNumbers == << <<37, 80, 68, 70>>,         \* %PDF
                      <<37, 80, 68, 70, 45>> >>   \* %PDF-

\* the outcome of FileReader.readAsArrayBuffer: onload with the bytes, or onerror
Loaded(bytes) == [kind |-> "load", result |-> bytes]
ReadFailed == [kind |-> "error", result |-> <<>>]

\* file.slice(0, 1024): the bytes handed to the reader
FileSlice(file) == SubSeq(file.content, 1, Min(Len(file.content), SliceEnd))

\* StartsWith with the loop stopping one byte early
StartsWithOffByOne(uint8Array, magicNumber) ==
    IF Len(uint8Array) < Len(magicNumber) THEN FALSE
    ELSE \A i \in 1..(Len(magicNumber) - 1) : uint8Array[i] = magicNumber[i]

\* the callback given to pdfMagicNumbers.some
StartsWith(uint8Array, magicNumber) ==
    IF Len(uint8Array) < Len(magicNumber) THEN FALSE
    ELSE \A i \in 1..Len(magicNumber) : uint8Array[i] = magicNumber[i]

\* validatePdfContent that knows only the "%PDF-" signature
validatePdfContentDashOnly(outcome) ==
    IF outcome.kind = "error"
    THEN [isValid |-> FALSE, details |-> "Error reading file content."]
    ELSE IF StartsWith(outcome.result, pdfMagicNumbers[2])
    THEN [isValid |-> TRUE, details |-> "PDF content validation passed."]
    ELSE [isValid |-> FALSE,
          details |-> "File does not contain valid PDF content. The file may have been renamed from another format."]

\* validatePdfContent whose onerror resolves with the detail of a signature mismatch
validatePdfContentOneDetail(outcome) ==
    IF outcome.kind = "load"
       /\ \E m \in 1..Len(pdfMagicNumbers) : StartsWith(outcome.result, pdfMagicNumbers[m])
    THEN [isValid |-> TRUE, details |-> "PDF content validation passed."]
    ELSE [isValid |-> FALSE,
          details |-> "File does not contain valid PDF content. The file may have been renamed from another format."]

validatePdfContent(outcome) ==
    IF outcome.kind = "error"
    THEN [isValid |-> FALSE, details |-> "Error reading file content."]
    ELSE IF \E m \in 1..Len(pdfMagicNumbers) : StartsWith(outcome.result, pdfMagicNumbers[m])
    THEN [isValid |-> TRUE, details |-> "PDF content validation passed."]
    ELSE [isValid |-> FALSE,
          details |-> "File does not contain valid PDF content. The file may have been renamed from another format."]

\* the size check with >= for >
TooLargeInclusive(file, limit) == file.size >= limit

\* the size check of validateFile
TooLarge(file, limit) == file.size > limit

\* the extension check on the end of the whole name instead of the extension
ExtensionAcceptedBySuffix(file, types) ==
    LET name == toLowerCase(file.name)
    IN  \E i \in 1..Len(types) :
            /\ Len(types[i]) <= Len(name)
            /\ SubSeq(name, Len(name) - Len(types[i]) + 1, Len(name)) = types[i]

\* the extension check without toLowerCase
ExtensionAcceptedCaseSensitive(file, types) ==
    LET fileExtension == getFileExtension(file.name)
        fileExtensionWithDot == <<".">> \o fileExtension
    IN  includes(types, fileExtension) \/ includes(types, fileExtensionWithDot)

\* the extension check of validateFile
\* the extension check letting through every file that declares the PDF mime type
ExtensionAcceptedOrPdfType(file, types) ==
    LET fileExtension == getFileExtension(file.name)
        fileExtensionWithDot == <<".">> \o toLowerCase(fileExtension)
    IN  \/ includes(types, toLowerCase(fileExtension))
        \/ includes(types, fileExtensionWithDot)
        \/ file.type = "application/pdf"

ExtensionAccepted(file, types) ==
    LET fileExtension == getFileExtension(file.name)
        fileExtensionWithDot == <<".">> \o toLowerCase(fileExtension)
    IN  includes(types, toLowerCase(fileExtension)) \/ includes(types, fileExtensionWithDot)

\* validateFile reading the content of every file that passes the size check
ReachesContentSizeOnly(file, limit, types) == ~TooLarge(file, limit)

\* validateFile gets as far as its await of validatePdfContent
ReachesContent(file, limit, types) == ~TooLarge(file, limit) /\ ExtensionAccepted(file, types)

\* the last return of validateFile with the error text of the return above it
ValidVerdictCopiedError ==
    [isValid |-> TRUE,
     status |-> "Valid PDF file",
     details |-> "File extension and content validation passed.",
     errorMessage |-> "The selected file is not a valid PDF file."]

\* the last return of validateFile
ValidVerdict ==
    [isValid |-> TRUE,
     status |-> "Valid PDF file",
     details |-> "File extension and content validation passed.",
     errorMessage |-> ""]

\* the value validateFile resolves to, given how the read (if any) ended
validateFile(file, limit, types, outcome) ==
    IF TooLarge(file, limit)
    THEN [isValid |-> FALSE,
          status |-> "File too large",
          details |-> "File size (" \o formatFileSize(Digits(file.size, K))
                      \o ") exceeds maximum allowed size (" \o formatFileSize(Digits(limit, K)) \o ")",
          errorMessage |-> "File size exceeds the maximum allowed limit."]
    ELSE IF ~ExtensionAccepted(file, types)
    THEN [isValid |-> FALSE,
          status |-> "Invalid file type",
          details |-> "File extension \"" \o Text(getFileExtension(file.name))
                      \o "\" is not allowed. Only PDF files are accepted.",
          errorMessage |-> "Please select a valid PDF file."]
    ELSE LET contentValidation == validatePdfContent(outcome)
         IN  IF ~contentValidation.isValid
             THEN [isValid |-> FALSE,
                   status |-> "Invalid PDF content",
                   details |-> contentValidation.details,
                   errorMessage |-> "The selected file is not a valid PDF file."]
             ELSE ValidVerdict

(***************************************************************************)
(* Inputs.                                                                 *)
(***************************************************************************)
PdfHeader == <<37, 80, 68, 70, 45, 49, 46, 52>>     \* %PDF-1.4

\* leading bytes of a file, by length: nothing, "%PD", "%PDF", "This", "%PDX", "%PDF-",
\* and eight-byte heads "%PDF-1.4", "%PDF1.4 ", "This is ", " %PDF-1.", "%pdf-1.4"
Contents ==
    { <<>>, <<37, 80, 68>>, <<37, 80, 68, 70>>, <<84, 104, 105, 115>>,
      <<37, 80, 68, 88>>,
      <<37, 80, 68, 70, 45>>, PdfHeader,
      <<37, 80, 68, 70, 49, 46, 52, 32>>,
      <<84, 104, 105, 115, 32, 105, 115, 32>>,
      <<32, 37, 80, 68, 70, 45, 49, 46>>,
      <<37, 112, 100, 102, 45, 49, 46, 52>> }

HeadLen == Len(PdfHeader)

Names ==
    { <<"t", ".", "p", "d", "f">>, <<"x", ".", "P", "D", "F">>, <<"a", ".", "P", "d", "f">>,
      <<"d", ".", "t", "x", "t">>, <<"a", ".", "b", ".", "p", "d", "f">>,
      <<"p", "d", "f">>, <<"p", "d", "f", ".">>, <<".", "p", "d", "f">>,
      <<"t", ".", "p", "d", "f", ".", "t", "x", "t">> }

Types == {"application/pdf", "text/plain"}

FileSizes == {0, 3, 4, 5, K, DefaultMaxFileSize, DefaultMaxFileSize + 1, 2 * DefaultMaxFileSize}

\* a file's content is its first HeadLen bytes: all of them when it is that short
AllFiles ==
    {f \in [name : Names, size : FileSizes, type : Types, content : Contents] :
        Len(f.content) = Min(f.size, HeadLen)}

\* the files the component is driven with
PdfA == [name |-> <<"t", ".", "p", "d", "f">>, size |-> K, type |-> "application/pdf",
         content |-> PdfHeader]
Fake == [name |-> <<"f", ".", "p", "d", "f">>, size |-> K, type |-> "text/plain",
         content |-> <<84, 104, 105, 115, 32, 105, 115, 32>>]
Txt == [name |-> <<"d", ".", "t", "x", "t">>, size |-> K, type |-> "text/plain",
        content |-> PdfHeader]
Large == [name |-> <<"l", ".", "p", "d", "f">>, size |-> 2 * DefaultMaxFileSize,
          type |-> "application/pdf", content |-> PdfHeader]
Files == {PdfA, Fake, Txt, Large}

\* values a host gives the @api properties
MaxFileSizes == {DefaultMaxFileSize, K}
AcceptedFileTypeLists ==
    { << <<".", "p", "d", "f">>, <<"p", "d", "f">> >>,
      << <<".", "p", "d", "f">> >>,
      << <<"p", "d", "f">> >>,
      << <<".", "P", "D", "F">> >>,
      << <<"t", "x", "t">>, <<".">> >> }

(***************************************************************************)
(* The component.                                                          *)
(***************************************************************************)
Init ==
    /\ maxFileSize = 10 * 1024 * 1024
    /\ acceptedFileTypes = << <<".", "p", "d", "f">>, <<"p", "d", "f">> >>
    /\ showFilePreview = FALSE
    /\ selectedFile = NoFile
    /\ isValidPdf = FALSE
    /\ validationStatus = ""
    /\ validationDetails = ""
    /\ errorMessage = ""
    /\ successMessage = ""
    /\ isDragOver = FALSE
    /\ pending = <<>>
    /\ events = <<>>
    /\ timers = <<>>
    /\ validation = NoValidation
    /\ phase = "Empty"
    /\ lastCall = NoCall

\* A processFile call whose validateFile returned without reading resumes in a
\* microtask, before the browser runs any other handler: a handler runs only
\* when no such call is waiting.
Idle == \A i \in 1..Len(pending) : pending[i].stage = "read"

Remove(seq, i) == SubSeq(seq, 1, i - 1) \o SubSeq(seq, i + 1, Len(seq))

\* the host sets the @api properties of a component that holds no file
Configure(limit, types) ==
    /\ Idle
    /\ selectedFile = NoFile
    /\ pending = <<>>
    /\ maxFileSize' = limit
    /\ acceptedFileTypes' = types
    /\ validation' = NoValidation
    /\ UNCHANGED <<showFilePreview, lastCall, selectedFile, isValidPdf, validationStatus,
                   validationDetails, errorMessage, successMessage, isDragOver,
                   pending, events, timers, phase>>

\* processFile up to its await: clearMessages, the assignment of selectedFile, and
\* the synchronous part of validateFile
processFile(file) ==
    /\ Len(pending) < MaxPending
    /\ errorMessage' = ""
    /\ successMessage' = ""
    /\ selectedFile' = file
    /\ pending' = Append(pending,
                         [file |-> file,
                          stage |-> IF ReachesContent(file, maxFileSize, acceptedFileTypes)
                                    THEN "read" ELSE "gate"])
    /\ validation' = NoValidation
    /\ phase' = "Validating"
    /\ UNCHANGED <<maxFileSize, acceptedFileTypes, showFilePreview, lastCall, isValidPdf,
                   validationStatus, validationDetails, events, timers>>

\* processFile from its await on, without the assignment of errorMessage
processFileResumeKeepsError(i, outcome) ==
    LET file == pending[i].file
        v == validateFile(file, maxFileSize, acceptedFileTypes, outcome)
        current == phase = "Validating" /\ i = Len(pending)
    IN  /\ isValidPdf' = v.isValid
        /\ validationStatus' = v.status
        /\ validationDetails' = v.details
        /\ pending' = Remove(pending, i)
        /\ validation' = [file |-> file, isValid |-> v.isValid, status |-> v.status,
                          details |-> v.details, errorMessage |-> v.errorMessage,
                          read |-> IF pending[i].stage = "gate" THEN "none" ELSE outcome.kind,
                          current |-> current]
        /\ phase' = IF ~current THEN phase ELSE IF v.isValid THEN "Valid" ELSE "Invalid"
        /\ UNCHANGED <<maxFileSize, acceptedFileTypes, showFilePreview, lastCall, selectedFile,
                       errorMessage, successMessage, isDragOver, events, timers>>

\* processFile from its await on, for the i-th suspended call
processFileResume(i, outcome) ==
    LET file == pending[i].file
        v == validateFile(file, maxFileSize, acceptedFileTypes, outcome)
        current == phase = "Validating" /\ i = Len(pending)
    IN  /\ isValidPdf' = v.isValid
        /\ validationStatus' = v.status
        /\ validationDetails' = v.details
        /\ errorMessage' = IF ~v.isValid THEN v.errorMessage ELSE errorMessage
        /\ pending' = Remove(pending, i)
        /\ validation' = [file |-> file, isValid |-> v.isValid, status |-> v.status,
                          details |-> v.details, errorMessage |-> v.errorMessage,
                          read |-> IF pending[i].stage = "gate" THEN "none" ELSE outcome.kind,
                          current |-> current]
        /\ phase' = IF ~current THEN phase ELSE IF v.isValid THEN "Valid" ELSE "Invalid"
        /\ UNCHANGED <<maxFileSize, acceptedFileTypes, showFilePreview, lastCall, selectedFile,
                       successMessage, isDragOver, events, timers>>

handleFileSelect(file) ==
    /\ Idle
    /\ processFile(file)
    /\ UNCHANGED isDragOver

handleDragOver ==
    /\ Idle
    /\ isDragOver' = TRUE
    /\ validation' = NoValidation
    /\ UNCHANGED <<maxFileSize, acceptedFileTypes, showFilePreview, lastCall, selectedFile,
                   isValidPdf, validationStatus, validationDetails, errorMessage,
                   successMessage, pending, events, timers, phase>>

handleDragLeave ==
    /\ Idle
    /\ isDragOver' = FALSE
    /\ validation' = NoValidation
    /\ UNCHANGED <<maxFileSize, acceptedFileTypes, showFilePreview, lastCall, selectedFile,
                   isValidPdf, validationStatus, validationDetails, errorMessage,
                   successMessage, pending, events, timers, phase>>

\* files is event.dataTransfer.files
handleDrop(files) ==
    /\ Idle
    /\ isDragOver' = FALSE
    /\ IF Len(files) > 0
       THEN processFile(files[1])
       ELSE /\ validation' = NoValidation
            /\ UNCHANGED <<maxFileSize, acceptedFileTypes, showFilePreview, lastCall, selectedFile,
                           isValidPdf, validationStatus, validationDetails, errorMessage,
                           successMessage, pending, events, timers, phase>>

\* the microtask that resumes a call whose file failed the size or extension check
ResumeAfterGate ==
    \E i \in 1..Len(pending) :
        /\ pending[i].stage = "gate"
        /\ processFileResume(i, ReadFailed)

\* reader.onload of the i-th call, and the microtasks it queues
ReaderOnLoad ==
    \E i \in 1..Len(pending) :
        /\ Idle
        /\ processFileResume(i, Loaded(FileSlice(pending[i].file)))

\* reader.onerror of the i-th call, and the microtasks it queues
ReaderOnError ==
    \E i \in 1..Len(pending) :
        /\ Idle
        /\ processFileResume(i, ReadFailed)

\* removeFile that reports the removal of a file
removeFileBodyReportsRemoval ==
    /\ selectedFile' = NoFile
    /\ isValidPdf' = FALSE
    /\ validationStatus' = ""
    /\ validationDetails' = ""
    /\ errorMessage' = ""
    /\ successMessage' = IF selectedFile # NoFile THEN "File removed." ELSE ""
    /\ phase' = "Empty"

\* removeFile without its call of clearMessages
removeFileBodyKeepsMessages ==
    /\ selectedFile' = NoFile
    /\ isValidPdf' = FALSE
    /\ validationStatus' = ""
    /\ validationDetails' = ""
    /\ UNCHANGED <<errorMessage, successMessage>>
    /\ phase' = "Empty"

\* the assignments of removeFile (the file input it clears is outside the model)
removeFileBody ==
    /\ selectedFile' = NoFile
    /\ isValidPdf' = FALSE
    /\ validationStatus' = ""
    /\ validationDetails' = ""
    /\ errorMessage' = ""
    /\ successMessage' = ""
    /\ phase' = "Empty"

removeFile ==
    /\ Idle
    /\ removeFileBody
    /\ validation' = NoValidation
    /\ UNCHANGED <<maxFileSize, acceptedFileTypes, showFilePreview, lastCall, isDragOver,
                   pending, events, timers>>

reset ==
    /\ Idle
    /\ removeFileBody
    /\ validation' = NoValidation
    /\ UNCHANGED <<maxFileSize, acceptedFileTypes, showFilePreview, lastCall, isDragOver,
                   pending, events, timers>>

getCurrentFile == selectedFile

isFileValid == isValidPdf

UploadRejected == selectedFile = NoFile \/ ~isValidPdf

\* each timer is labelled with the file whose upload started it
uploadFile ==
    /\ Idle
    /\ validation' = NoValidation
    /\ IF UploadRejected
       THEN /\ errorMessage' = "Please select a valid PDF file before uploading."
            /\ UNCHANGED <<maxFileSize, acceptedFileTypes, showFilePreview, lastCall, selectedFile,
                           isValidPdf, validationStatus, validationDetails,
                           successMessage, isDragOver, pending, events, timers, phase>>
       ELSE /\ Len(events) < MaxEvents
            /\ Len(timers) < MaxTimers
            /\ events' = Append(events, [file |-> selectedFile,
                                         fileName |-> selectedFile.name,
                                         fileSize |-> selectedFile.size,
                                         fileType |-> selectedFile.type])
            /\ successMessage' = "File uploaded successfully!"
            /\ timers' = Append(timers, selectedFile)
            /\ phase' = "Uploading"
            /\ UNCHANGED <<maxFileSize, acceptedFileTypes, showFilePreview, lastCall, selectedFile,
                           isValidPdf, validationStatus, validationDetails, errorMessage,
                           isDragOver, pending>>

\* the timer callback without its call of removeFile
TimerFiresKeepsFile ==
    /\ Idle
    /\ timers # <<>>
    /\ timers' = Tail(timers)
    /\ validation' = NoValidation
    /\ UNCHANGED <<maxFileSize, acceptedFileTypes, showFilePreview, lastCall, selectedFile,
                   isValidPdf, validationStatus, validationDetails, errorMessage,
                   successMessage, isDragOver, pending, events, phase>>

\* the callback uploadFile gave setTimeout
TimerFires ==
    /\ Idle
    /\ timers # <<>>
    /\ removeFileBody
    /\ timers' = Tail(timers)
    /\ validation' = NoValidation
    /\ UNCHANGED <<maxFileSize, acceptedFileTypes, showFilePreview, lastCall, isDragOver,
                   pending, events>>

\* drop payloads: no file, one file, or two files
DropPayloads == {<<>>} \cup {<<f>> : f \in Files} \cup {<<Fake, PdfA>>, <<PdfA, Fake>>}

\* the component under its default configuration
Next ==
    \/ \E f \in Files : handleFileSelect(f)
    \/ handleDragOver
    \/ handleDragLeave
    \/ \E files \in DropPayloads : handleDrop(files)
    \/ ResumeAfterGate
    \/ ReaderOnLoad
    \/ ReaderOnError
    \/ removeFile
    \/ reset
    \/ uploadFile
    \/ TimerFires

Spec == Init /\ [][Next]_vars

\* any configuration; one candidate at a time, drawn from every combination of name, size, type and content
NextValidate ==
    \/ \E limit \in MaxFileSizes, types \in AcceptedFileTypeLists : Configure(limit, types)
    \/ \E f \in AllFiles : phase = "Empty" /\ pending = <<>> /\ handleFileSelect(f)
    \/ ResumeAfterGate
    \/ ReaderOnLoad
    \/ ReaderOnError
    \/ reset

SpecValidate == Init /\ [][NextValidate]_vars

\* the event loop runs a timer callback that is due once nothing else is running;
\* a read may take for ever, and the user need not do anything
Fairness == WF_vars(TimerFires)

SpecLive == Init /\ [][Next]_vars /\ Fairness

(***************************************************************************)
(* The utility methods called directly, as the component's tests do.       *)
(***************************************************************************)
MaxNameLen == 4     \* characters of a generated file name

\* byte counts have up to one base-K digit more than sizes has units
MaxDigits == Len(sizes) + 1

DigitValues == {0, 1, K \div 2, K - 1}

\* 0 and the positive byte counts of up to MaxDigits digits, short of K^MaxDigits - 1,
\* where the floating-point quotient of the two logarithms is no longer below MaxDigits
ByteCounts ==
    {<<0>>} \cup {d \in UNION {[1..n -> DigitValues] : n \in 1..MaxDigits} :
                    d[1] # 0 /\ d # [i \in 1..MaxDigits |-> K - 1]}

DocumentPdf == <<"d", "o", "c", "u", "m", "e", "n", "t", ".", "p", "d", "f">>
FileNamePdf == <<"f", "i", "l", "e", ".", "n", "a", "m", "e", ".", "p", "d", "f">>
NoExtension == <<"n", "o", "e", "x", "t", "e", "n", "s", "i", "o", "n">>

\* the names of the tests and every name of up to MaxNameLen characters over '.', 'a', 'B'
FileNames ==
    {DocumentPdf, FileNamePdf, NoExtension}
        \cup UNION {[1..n -> {".", "a", "B"}] : n \in 0..MaxNameLen}

CallFormatFileSize(bytes) ==
    /\ lastCall' = [method |-> "formatFileSize", argument |-> bytes,
                    result |-> formatFileSize(bytes)]
    /\ UNCHANGED <<maxFileSize, acceptedFileTypes, showFilePreview, selectedFile,
                   isValidPdf, validationStatus, validationDetails, errorMessage,
                   successMessage, isDragOver, pending, events, timers, validation, phase>>

CallGetFileExtension(filename) ==
    /\ lastCall' = [method |-> "getFileExtension", argument |-> filename,
                    result |-> getFileExtension(filename)]
    /\ UNCHANGED <<maxFileSize, acceptedFileTypes, showFilePreview, selectedFile,
                   isValidPdf, validationStatus, validationDetails, errorMessage,
                   successMessage, isDragOver, pending, events, timers, validation, phase>>

NextUtility ==
    \/ \E bytes \in ByteCounts : CallFormatFileSize(bytes)
    \/ \E filename \in FileNames : CallGetFileExtension(filename)

SpecUtility == Init /\ [][NextUtility]_vars

(***************************************************************************)
(* Properties.                                                             *)
(***************************************************************************)
\* an allow-list entry without its optional leading dot
StripLeadingDot(e) == IF e # <<>> /\ Head(e) = "." THEN Tail(e) ELSE e

\* the extension of name equals entry e when case and e's leading dot are ignored
MatchesEntry(name, e) == toLowerCase(getFileExtension(name)) = toLowerCase(StripLeadingDot(e))

InAllowSet(name, types) == \E i \in 1..Len(types) : MatchesEntry(name, types[i])

InLowercaseAllowSet(name, types) ==
    \E i \in 1..Len(types) : types[i] = toLowerCase(types[i]) /\ MatchesEntry(name, types[i])

\* the content starts with 25 50 44 46
BeginsWithPdf(content) == Len(content) >= 4 /\ SubSeq(content, 1, 4) = <<37, 80, 68, 70>>

Returned == validation.file # NoFile

\* C1: a file larger than maxFileSize gets the verdict "File too large", invalid,
\* whatever its name and content; a file of exactly maxFileSize does not.
C1_SizeGateFirst ==
    Returned =>
        /\ validation.file.size > maxFileSize =>
               ~validation.isValid /\ validation.status = "File too large"
        /\ validation.file.size = maxFileSize => validation.status # "File too large"

C1_Witness ==
    /\ Returned
    /\ validation.file.size > maxFileSize
    /\ ~InAllowSet(validation.file.name, acceptedFileTypes)
    /\ ~BeginsWithPdf(validation.file.content)
    /\ validation.status = "File too large"

\* C2: a file within the size limit whose extension matches no allow-list entry
\* (case and leading dot ignored) gets "Invalid file type", whatever its content.
C2_ExtensionGate ==
    (Returned /\ validation.file.size <= maxFileSize
              /\ ~InAllowSet(validation.file.name, acceptedFileTypes))
    => ~validation.isValid /\ validation.status = "Invalid file type"

C2_Witness ==
    /\ Returned
    /\ validation.file.size <= maxFileSize
    /\ ~InAllowSet(validation.file.name, acceptedFileTypes)
    /\ BeginsWithPdf(validation.file.content)
    /\ validation.status = "Invalid file type"

\* C3 as stated: a file whose extension equals some allow-list entry, case and the
\* entry's leading dot ignored, is never answered "Invalid file type".
C3_AnyEntryCaseIgnored ==
    (Returned /\ InAllowSet(validation.file.name, acceptedFileTypes))
    => validation.status # "Invalid file type"

\* C3 amended: a file whose extension equals some lower-case allow-list entry, the
\* file's case and the entry's leading dot ignored, is never answered "Invalid file type".
C3_LowercaseEntryCaseIgnored ==
    (Returned /\ InLowercaseAllowSet(validation.file.name, acceptedFileTypes))
    => validation.status # "Invalid file type"

C3_Witness ==
    /\ Returned
    /\ getFileExtension(validation.file.name) = <<"P", "D", "F">>
    /\ acceptedFileTypes = << <<".", "p", "d", "f">> >>
    /\ validation.file.size <= maxFileSize
    /\ validation.status = "Valid PDF file"

\* C4: a file that passes the size and extension checks and does not start with
\* %PDF (an empty or shorter file included) gets the verdict "Invalid PDF content".
C4_ContentGate ==
    (Returned /\ ReachesContent(validation.file, maxFileSize, acceptedFileTypes)
              /\ ~BeginsWithPdf(validation.file.content))
    => ~validation.isValid /\ validation.status = "Invalid PDF content"

C4_Witness ==
    /\ Returned
    /\ ReachesContent(validation.file, maxFileSize, acceptedFileTypes)
    /\ Len(validation.file.content) < 4
    /\ validation.read = "load"
    /\ validation.status = "Invalid PDF content"

\* C5: a file within the size limit, with an allowed extension and content starting
\* with %PDF, whose read succeeds gets the verdict "Valid PDF file"; isFileValid() is
\* then true, and getCurrentFile() is that file when it is still the candidate.
C5_ValidPdf ==
    (Returned /\ validation.file.size <= maxFileSize
              /\ InLowercaseAllowSet(validation.file.name, acceptedFileTypes)
              /\ BeginsWithPdf(validation.file.content)
              /\ validation.read = "load")
    => /\ validation.isValid
       /\ validation.status = "Valid PDF file"
       /\ isFileValid
       /\ validation.current => getCurrentFile = validation.file

C5_Witness ==
    /\ Returned
    /\ validation.file.content = <<37, 80, 68, 70>>
    /\ validation.read = "load"
    /\ validation.current
    /\ validation.status = "Valid PDF file"
    /\ isFileValid
    /\ getCurrentFile = validation.file

\* C6: a fileupload event is dispatched only when the selected file's own validation
\* has ended valid.
C6_UploadOnlyFromValid == [][Len(events') > Len(events) => phase = "Valid"]_vars

\* C7: uploadFile called when the candidate has been judged valid dispatches one
\* fileupload event with the selected file, its name, size and type, and sets
\* successMessage.
C7_UploadFromValid ==
    [][(uploadFile /\ phase = "Valid") =>
          /\ events' = Append(events, [file |-> getCurrentFile,
                                       fileName |-> getCurrentFile.name,
                                       fileSize |-> getCurrentFile.size,
                                       fileType |-> getCurrentFile.type])
          /\ successMessage' # ""]_vars

\* C8: uploadFile called with no file selected, or with a candidate judged invalid,
\* sets the error message, dispatches nothing, starts no timer and leaves the
\* selection and its verdict alone.
C8_UploadRejected ==
    [][(uploadFile /\ phase \in {"Empty", "Invalid"}) =>
          /\ errorMessage' = "Please select a valid PDF file before uploading."
          /\ events' = events
          /\ timers' = timers
          /\ UNCHANGED <<selectedFile, isValidPdf, validationStatus, validationDetails>>]_vars

\* C9: every verdict has an empty errorMessage when valid, one of the four statuses,
\* and is valid exactly when the status is "Valid PDF file".
C9_VerdictShape ==
    Returned =>
        /\ validation.isValid => validation.errorMessage = ""
        /\ validation.status \in {"File too large", "Invalid file type",
                                  "Invalid PDF content", "Valid PDF file"}
        /\ validation.isValid <=> validation.status = "Valid PDF file"

C9_Witness ==
    /\ Returned
    /\ validation.isValid
    /\ validation.errorMessage = ""
    /\ validation.status = "Valid PDF file"

\* C10: right after reset() or removeFile(), from any state, no file is selected,
\* isFileValid() is false and the status, details, error and success texts are empty.
C10_ResetClears ==
    [][(reset \/ removeFile) =>
          /\ getCurrentFile' = NoFile
          /\ ~isFileValid'
          /\ validationStatus' = ""
          /\ validationDetails' = ""
          /\ errorMessage' = ""
          /\ successMessage' = ""
          /\ phase' = "Empty"]_vars

\* reset has run while an upload's timer was outstanding and a validation in flight
C10_Witness ==
    /\ timers # <<>>
    /\ pending # <<>>
    /\ phase = "Empty"
    /\ getCurrentFile = NoFile
    /\ ~isFileValid
    /\ validationStatus = "" /\ validationDetails = ""
    /\ errorMessage = "" /\ successMessage = ""

\* the component shows nothing: what reset leaves behind
Cleared ==
    /\ getCurrentFile = NoFile
    /\ ~isFileValid
    /\ validationStatus = "" /\ validationDetails = ""
    /\ errorMessage = "" /\ successMessage = ""

\* C11: a second reset() right after a reset() changes nothing: the first one leaves
\* the component cleared, and no reset step from there alters any variable.
C11_ResetIdempotent ==
    [][reset => (Cleared' /\ (~ENABLED <<reset>>_vars)')]_vars

\* reset has run before the timer of an upload did, and a further reset changes nothing
C11_Witness ==
    /\ Cleared
    /\ phase = "Empty"
    /\ events # <<>>
    /\ timers # <<>>
    /\ ~ENABLED <<reset>>_vars

MismatchDetail ==
    "File does not contain valid PDF content. The file may have been renamed from another format."

\* C12: a failed read gives the verdict "Invalid PDF content", invalid, with a detail
\* other than the one for a signature mismatch; the candidate stays selected and
\* Invalid; and a valid PDF selected while that failure is displayed becomes Valid
\* when its read loads.
C12_ReadFailureIsVerdict ==
    /\ [](validation.read = "error" =>
            /\ ~validation.isValid
            /\ validation.status = "Invalid PDF content"
            /\ validation.details # MismatchDetail
            /\ validation.details # ""
            /\ validation.current =>
                  /\ phase = "Invalid"
                  /\ getCurrentFile = validation.file
                  /\ ~isFileValid
                  /\ validationDetails = validation.details)
    /\ [][(/\ validationDetails = "Error reading file content."
           /\ validation'.file # NoFile
           /\ validation'.current
           /\ validation'.read = "load"
           /\ BeginsWithPdf(validation'.file.content))
          => (phase' = "Valid" /\ isFileValid' /\ getCurrentFile' = validation'.file)]_vars

C12_Witness ==
    /\ validation.read = "error"
    /\ validation.current
    /\ BeginsWithPdf(validation.file.content)
    /\ phase = "Invalid"
    /\ getCurrentFile = validation.file
    /\ validationDetails = "Error reading file content."

\* nothing has happened to the component since it was created
FreshlyCreated ==
    /\ phase = "Empty"
    /\ pending = <<>>
    /\ events = <<>>
    /\ timers = <<>>
    /\ validation = NoValidation
    /\ ~isDragOver
    /\ Cleared

\* C13: a freshly created component has maxFileSize = 10485760, acceptedFileTypes
\* exactly ['.pdf'], showFilePreview = true, no selected file and isValidPdf = false.
C13_FreshDefaults ==
    FreshlyCreated =>
        /\ maxFileSize = DefaultMaxFileSize
        /\ acceptedFileTypes = << <<".", "p", "d", "f">> >>
        /\ showFilePreview = TRUE
        /\ selectedFile = NoFile
        /\ isValidPdf = FALSE

\* C14: getFileExtension(filename) is the part of filename strictly after its last
\* '.', and is empty when filename has no '.' or ends with its last '.'; the result
\* never contains a '.' ("document.pdf" -> "pdf", "file.name.pdf" -> "pdf",
\* "noextension" -> "").
C14_GetFileExtension ==
    lastCall.method = "getFileExtension" =>
        LET filename == lastCall.argument
            ext      == lastCall.result
            dots     == {i \in 1..Len(filename) : filename[i] = "."}
        IN  /\ \A i \in 1..Len(ext) : ext[i] # "."
            /\ dots = {} => ext = <<>>
            /\ filename # <<>> /\ filename[Len(filename)] = "." => ext = <<>>
            /\ dots # {} =>
                 \E i \in dots : /\ \A j \in dots : j <= i
                                 /\ ext = SubSeq(filename, i + 1, Len(filename))
            /\ filename = DocumentPdf => ext = <<"p", "d", "f">>
            /\ filename = FileNamePdf => ext = <<"p", "d", "f">>
            /\ filename = NoExtension => ext = <<>>

\* a name with two dots has been cut at the second
C14_Witness ==
    /\ lastCall.method = "getFileExtension"
    /\ lastCall.argument = FileNamePdf
    /\ lastCall.result = <<"p", "d", "f">>

\* C15: formatFileSize(0) is "0 Bytes"; for a positive byte count the result is
\* "value unit" with unit the entry of {Bytes, KB, MB, GB} at index
\* floor(log1024(bytes)) and value = bytes / 1024^index to two decimals
\* (1024 -> "1 KB", 1048576 -> "1 MB"); the unit is always one of these four.
C15_FormatFileSize ==
    lastCall.method = "formatFileSize" =>
        LET bytes == lastCall.argument
            index == Len(bytes) - 1
            units == <<"Bytes", "KB", "MB", "GB">>
        IN  IF bytes = <<0>> THEN lastCall.result = "0 Bytes"
            ELSE /\ \E u \in 1..Len(units) :
                       /\ u = index + 1
                       /\ lastCall.result = NumberText(Hundredths(bytes)) \o " " \o units[u]
                 /\ bytes = <<1, 0>> => lastCall.result = "1 KB"
                 /\ bytes = <<1, 0, 0>> => lastCall.result = "1 MB"

\* the verdict validateFile gives the file when its read ends as outcome
VerdictShown(file, outcome) ==
    LET v == validateFile(file, maxFileSize, acceptedFileTypes, outcome)
    IN  /\ isValidPdf = v.isValid
        /\ validationStatus = v.status
        /\ validationDetails = v.details

\* C16: the verdict of a call that is no longer validating the current candidate,
\* arriving while another file is selected, changes none of isValidPdf,
\* validationStatus, validationDetails, errorMessage; hence with a file selected and
\* no validation in flight, the verdict shown is that of the selected file.
C16_StaleVerdictIgnored ==
    /\ [][(/\ validation'.file # NoFile
           /\ ~validation'.current
           /\ selectedFile # NoFile
           /\ selectedFile # validation'.file)
          => UNCHANGED <<isValidPdf, validationStatus, validationDetails, errorMessage>>]_vars
    /\ []((selectedFile # NoFile /\ pending = <<>>) =>
            \/ VerdictShown(selectedFile, Loaded(FileSlice(selectedFile)))
            \/ VerdictShown(selectedFile, ReadFailed))

\* a step that selects a file: a processFile call starts
Selects == phase' = "Validating" /\ Len(pending') = Len(pending) + 1

\* C17: every selection leaves validationStatus, validationDetails, errorMessage and
\* successMessage empty and isFileValid() false, and until the verdict of the new
\* candidate arrives the status and details stay empty and isFileValid() false: no
\* verdict of an earlier candidate is carried over.
C17_SelectClears ==
    /\ [][Selects => /\ validationStatus' = "" /\ validationDetails' = ""
                     /\ errorMessage' = "" /\ successMessage' = ""
                     /\ ~isFileValid']_vars
    /\ [](phase = "Validating" =>
            validationStatus = "" /\ validationDetails = "" /\ ~isFileValid)

\* C18: selectedFile goes from a file to null only in a reset()/removeFile() or when
\* the timer of that same file's upload runs: the timer of an earlier upload never
\* discards another file selected during the delay.
C18_DiscardedOnlyByOwnTimer ==
    [][(selectedFile # NoFile /\ selectedFile' = NoFile) =>
          \/ timers' = timers
          \/ timers # <<>> /\ timers' = Tail(timers) /\ Head(timers) = selectedFile]_vars

\* C19: after an upload request that dispatched fileupload, the timer running, the
\* component comes back to Empty (no file, isValidPdf false, status, details, error
\* and success text empty) unless a new file is selected meanwhile.
C19_ReturnsToEmpty ==
    (phase = "Uploading") ~> ((phase = "Empty" /\ Cleared) \/ phase = "Validating")

\* the timer of an upload has run and left the component empty
C19_Witness ==
    /\ events # <<>>
    /\ timers = <<>>
    /\ pending = <<>>
    /\ phase = "Empty"
    /\ Cleared

\* the file passes the size gate and the extension gate
PassesGates(file) ==
    file.size <= maxFileSize /\ InAllowSet(file.name, acceptedFileTypes)

\* C20: per validation call the stages run in the order size gate, extension gate,
\* content read, stopping at the first failure: a read is in flight only for a file
\* that passed both gates, a call has one read at most, a verdict is written to the
\* component only by the step that ends the call (for a file that reached the content
\* stage, the completion or failure of its own read), and a call whose read never
\* ends writes nothing.
C20_StageOrder ==
    /\ [](\A i \in 1..Len(pending) : pending[i].stage = "read" <=> PassesGates(pending[i].file))
    /\ [](Returned =>
            /\ validation.read = "none" <=> ~PassesGates(validation.file)
            /\ validation.status \in {"Invalid PDF content", "Valid PDF file"}
                   <=> validation.read \in {"load", "error"})
    /\ [][Len(pending') > Len(pending) =>
             \E stage \in {"gate", "read"} :
                 pending' = Append(pending, [file |-> selectedFile', stage |-> stage])]_vars
    /\ [][Returned' =>
             \E i \in 1..Len(pending) :
                 /\ pending[i].file = validation'.file
                 /\ pending' = Remove(pending, i)
                 /\ validation'.read # "none" <=> pending[i].stage = "read"]_vars
    /\ [][(/\ validationStatus' # ""
           /\ \/ isValidPdf' # isValidPdf
              \/ validationStatus' # validationStatus
              \/ validationDetails' # validationDetails)
          => /\ Returned'
             /\ isValidPdf' = validation'.isValid
             /\ validationStatus' = validation'.status
             /\ validationDetails' = validation'.details]_vars

\* the read of one call has completed and its verdict is shown while the read of
\* another call, for a file that passed both gates, is still in flight
C20_Witness ==
    /\ Returned
    /\ validation.read = "load"
    /\ PassesGates(validation.file)
    /\ validationStatus = validation.status
    /\ \E i \in 1..Len(pending) : pending[i].stage = "read"

\* C21: when the validation of the current candidate ends invalid (too large, wrong
\* extension, bad content or failed read), with no selection or reset since the
\* candidate was selected, the candidate is still selected, isFileValid() is false,
\* validationStatus is the verdict's status and errorMessage is the verdict's error
\* text, which is not empty.
C21_InvalidVerdictSurfaced ==
    (Returned /\ validation.current /\ ~validation.isValid) =>
        /\ phase = "Invalid"
        /\ getCurrentFile = validation.file
        /\ ~isFileValid
        /\ validation.status \in {"File too large", "Invalid file type", "Invalid PDF content"}
        /\ validationStatus = validation.status
        /\ validation.errorMessage # ""
        /\ errorMessage = validation.errorMessage

\* the candidate was too large, and its verdict is shown while an earlier call is
\* still reading
C21_Witness ==
    /\ Returned
    /\ validation.current
    /\ validation.status = "File too large"
    /\ getCurrentFile = validation.file
    /\ errorMessage = "File size exceeds the maximum allowed limit."
    /\ pending # <<>>

\* the verdict of validateFile for the file that just got one, had it declared the
\* mime type t: same name, size, content, configuration and end of the read
VerdictWithType(t) ==
    LET file == [validation.file EXCEPT !.type = t]
        outcome == IF validation.read = "load" THEN Loaded(FileSlice(file)) ELSE ReadFailed
    IN  validateFile(file, maxFileSize, acceptedFileTypes, outcome)

\* C22: the verdict does not depend on the declared mime type: a file with the same
\* name, size and content but another type gets the same isValid, status, details
\* and errorMessage under the same configuration.
C22_MimeTypeIgnored ==
    Returned =>
        \A t \in Types :
            /\ VerdictWithType(t).isValid = validation.isValid
            /\ VerdictWithType(t).status = validation.status
            /\ VerdictWithType(t).details = validation.details
            /\ VerdictWithType(t).errorMessage = validation.errorMessage

\* a file declaring text/plain was judged a valid PDF, and one declaring
\* application/pdf would have been judged the same
C22_Witness ==
    /\ Returned
    /\ validation.file.type = "text/plain"
    /\ validation.isValid
    /\ VerdictWithType("application/pdf").isValid

\* C23: isFileValid() is true only while a file is selected, also when reset(),
\* removeFile() or the timer of an upload ran with a validation in flight whose
\* verdict arrives afterwards: the component then stays Empty, with validationStatus
\* and validationDetails empty.
C23_ValidOnlyWithFile ==
    /\ isFileValid => getCurrentFile # NoFile
    /\ phase = "Empty" => validationStatus = "" /\ validationDetails = ""

\* C24: isValidPdf true, or the status "Valid PDF file", is never shown together
\* with an error message, also when uploadFile was rejected during a validation
\* that then ends valid.
C24_ValidWithoutError ==
    (isValidPdf \/ validationStatus = "Valid PDF file") => errorMessage = ""

====
